---- MODULE Spec2Model ----
(***************************************************************************)
(* A model of src/src/neo4j_driver.py: the Neo4jDriver object (its two     *)
(* sample pools and its range cache), the graph store it talks to (Track   *)
(* nodes and MATCHED edges), and the operations random_sample,             *)
(* normalize_data, evaluate_metrics, find_recommended_songs and            *)
(* flush_database.                                                         *)
(*                                                                         *)
(* Numbers are exact rationals <<numerator, denominator>>.  A Euclidean    *)
(* distance d (a square root) is carried as d*d, which orders the          *)
(* non-negative reals exactly as d does; every comparison of a distance    *)
(* is rewritten for that representation (see GreaterThan).                 *)
(***************************************************************************)
EXTENDS Integers, Sequences, FiniteSets, Bags, TLC

\* ------------------------------------------------------------------ bounds
MaxPool == 3            \* most ids held by random_nodes and artists_nodes together
MaxEdges == 2           \* most MATCHED edges explored
MaxBatch == 2           \* largest explicit batch_size argument
MaxK == 1               \* largest num_recommendations argument
MaxMagnitude == 4       \* largest numerator / denominator of a stored value
MaxDictLen == 2         \* longest track dict handed to eucliean_distance alone

\* ------------------------------------------------------- program constants
track_keys == <<"id", "artist", "album", "name", "popularity", "duration_ms",
                "explicit", "danceability", "energy", "key", "loudness", "mode",
                "speechiness", "acousticness", "instrumentalness", "liveness",
                "valence", "tempo", "time_signature", "genre">>

exclude_keys == <<"artist", "album", "name", "genre", "id", "explicit">>

DefaultBatchSize == 1500

DefaultArtist == "Regina Spektor"

\* --------------------------------------------------------------- numbers
Abs(i) == IF i < 0 THEN -i ELSE i

RECURSIVE GCD(_, _)
GCD(a, b) == IF b = 0 THEN a ELSE GCD(b, a % b)

\* the rational n/d (d # 0) in lowest terms with a positive denominator
Rat(n, d) ==
    LET s == IF d < 0 THEN -1 ELSE 1
        g == GCD(Abs(n), Abs(d))
    IN  <<(s * n) \div g, (s * d) \div g>>

Zero == <<0, 1>>

One == <<1, 1>>

RAdd(a, b) == Rat(a[1] * b[2] + b[1] * a[2], a[2] * b[2])

RSub(a, b) == Rat(a[1] * b[2] - b[1] * a[2], a[2] * b[2])

RMul(a, b) == Rat(a[1] * b[1], a[2] * b[2])

\* a / b for b # 0
RDiv(a, b) == Rat(a[1] * b[2], a[2] * b[1])

RLess(a, b) == a[1] * b[2] < b[1] * a[2]

RLeq(a, b) == a[1] * b[2] <= b[1] * a[2]

\* ---------------------------------------------------------------- values
\* a property value is a number, a string or a boolean
Num(q) == [num |-> q]

Str(s) == [str |-> s]

Bool(b) == [bool |-> b]

IsNum(v) == DOMAIN v = {"num"}

IsBool(v) == DOMAIN v = {"bool"}

\* ----------------------------------------------------------------- dicts
\* a dict is the sequence of its <<key, value>> items in iteration order
Range(s) == {s[i] : i \in DOMAIN s}

HasKey(d, k) == \E i \in DOMAIN d : d[i][1] = k

Get(d, k) == d[CHOOSE i \in DOMAIN d : d[i][1] = k][2]

SetKey(d, k, v) == [i \in DOMAIN d |-> IF d[i][1] = k THEN <<k, v>> ELSE d[i]]

Excluded == Range(exclude_keys)

\* ------------------------------------------------------ eucliean_distance
\* process_dict: the vector of the non-excluded boolean / numeric values,
\* in the dict's iteration order
RECURSIVE process_dict(_)
process_dict(d) ==
    IF d = <<>> THEN <<>>
    ELSE LET key == Head(d)[1]
             value == Head(d)[2]
             rest == process_dict(Tail(d))
         IN  IF key \in Excluded THEN rest
             ELSE IF IsBool(value)
                  THEN <<IF value.bool THEN One ELSE Zero>> \o rest
             ELSE IF IsNum(value) THEN <<value.num>> \o rest
             ELSE rest

RECURSIVE SumSq(_)
SumSq(v) == IF v = <<>> THEN Zero
            ELSE RAdd(RMul(Head(v), Head(v)), SumSq(Tail(v)))

\* numpy's t1 - t2 on one-dimensional arrays: elementwise on equal shapes,
\* a length-1 array is broadcast against the other, anything else raises
CanSubtract(t1, t2) == Len(t1) = Len(t2) \/ Len(t1) = 1 \/ Len(t2) = 1

Subtract(t1, t2) ==
    IF Len(t1) = Len(t2) THEN [i \in 1..Len(t1) |-> RSub(t1[i], t2[i])]
    ELSE IF Len(t1) = 1 THEN [i \in 1..Len(t2) |-> RSub(t1[1], t2[i])]
    ELSE [i \in 1..Len(t1) |-> RSub(t1[i], t2[1])]

\* err = "" and sq = the squared norm of t1 - t2, or err = "ValueError"
eucliean_distance(track1, track2) ==
    LET t1 == process_dict(track1)
        t2 == process_dict(track2)
    IN  IF CanSubtract(t1, t2)
        THEN [err |-> "", sq |-> SumSq(Subtract(t1, t2))]
        ELSE [err |-> "ValueError", sq |-> Zero]

\* ----------------------------------------------------------------- state
VARIABLES
    store,            \* the graph's Track nodes: node id -> property dict
    edges,            \* the graph's MATCHED edges, a bag: parallel edges count
    random_nodes,     \* self.random_nodes
    artists_nodes,    \* self.artists_nodes
    max_min_values,   \* self.max_min_values
    last,             \* the call that ran last: its name, arguments, error
    recommended,      \* what the last call returned, if it was find_recommended_songs
    track1, track2,   \* the arguments of a direct eucliean_distance call
    distance          \* and its outcome

vars == <<store, edges, random_nodes, artists_nodes, max_min_values, last,
          recommended, track1, track2, distance>>

Artists == {DefaultArtist, "Other"}

\* the batch sizes asked for: the small ones and the default
BatchSizes == 0..MaxBatch \cup {DefaultBatchSize}

\* the ids of the Track nodes the store is loaded with
NodeIds == {1, 2, 3}

Call(op, batch_size, artist, threshold, k, err) ==
    [op |-> op, batch_size |-> batch_size, artist |-> artist,
     threshold |-> threshold, k |-> k, err |-> err]

NoDistance == [err |-> "none", sq |-> Zero]

\* ------------------------------------------------- the loaded Track nodes
ArtistOf(i) == IF i = 1 THEN DefaultArtist ELSE IF i = 2 THEN "Other" ELSE "Various"

NameOf(i) == "song" \o ToString(i % 3)

PopularityOf(i) == i + 1

TrackValue(i, key) ==
    CASE key = "id" -> Str("t" \o ToString(i))
      [] key = "artist" -> Str(ArtistOf(i))
      [] key = "album" -> Str("album")
      [] key = "name" -> Str(NameOf(i))
      [] key = "genre" -> Str("genre")
      [] key = "explicit" -> Bool(FALSE)
      [] key = "popularity" -> Num(<<PopularityOf(i), 1>>)
      [] key = "key" -> Num(<<5, 1>>)
      [] OTHER -> Num(Zero)

\* one CSV row as a node; a column that is empty in the row (toFloat(null))
\* leaves the node without that property
MkTrack(i, empty) ==
    LET keys == SelectSeq(track_keys, LAMBDA k : k \notin empty)
    IN  [j \in 1..Len(keys) |-> <<keys[j], TrackValue(i, keys[j])>>]

\* the driver as constructed, on a store loaded with one row per node id, of which
\* row m (if m > 0) has an empty energy column
Constructed(m) ==
    /\ store = [i \in NodeIds |-> MkTrack(i, IF i = m THEN {"energy"} ELSE {})]
    /\ edges = EmptyBag
    /\ random_nodes = <<>>
    /\ artists_nodes = <<>>
    /\ max_min_values = <<>>
    /\ last = Call("init", 0, "", Zero, 0, "")
    /\ recommended = {}
    /\ track1 = <<>>
    /\ track2 = <<>>
    /\ distance = NoDistance

Init == Constructed(0)

InitSparse == \E m \in {0} \cup NodeIds : Constructed(m)

\* ---------------------------------------------------------- random_sample
RECURSIVE Ascending(_)
Ascending(S) ==
    IF S = {} THEN <<>>
    ELSE LET m == CHOOSE x \in S : \A y \in S : x <= y
         IN  <<m>> \o Ascending(S \ {m})

Min(a, b) == IF a < b THEN a ELSE b

\* MATCH (t:Track) WHERE NOT t.artist = artist
NotByArtist(st, artist) ==
    {i \in DOMAIN st : HasKey(st[i], "artist")
                       /\ Get(st[i], "artist") # Str(artist)}

\* MATCH (t:Track) WHERE t.artist = artist
ByArtist(st, artist) ==
    {i \in DOMAIN st : HasKey(st[i], "artist")
                       /\ Get(st[i], "artist") = Str(artist)}

\* ORDER BY rand() ... LIMIT n: any n distinct members of S in any order,
\* all of S when it has fewer than n members
Samples(S, n) ==
    LET m == Min(n, Cardinality(S))
    IN  {s \in [1..m -> S] : \A i, j \in 1..m : s[i] = s[j] => i = j}

\* the pools random_sample can leave behind: both queries append
SampleResults(st, rn, an, batch_size, artist) ==
    {[random_nodes |-> rn \o s,
      artists_nodes |-> an \o Ascending(ByArtist(st, artist))] :
        s \in Samples(NotByArtist(st, artist), batch_size)}

random_sample(batch_size, artist) ==
    /\ \E p \in SampleResults(store, random_nodes, artists_nodes,
                              batch_size, artist) :
          /\ Len(p.random_nodes) + Len(p.artists_nodes) <= MaxPool
          /\ random_nodes' = p.random_nodes
          /\ artists_nodes' = p.artists_nodes
    /\ last' = Call("random_sample", batch_size, artist, Zero, 0, "")
    /\ recommended' = {}
    /\ UNCHANGED <<store, edges, max_min_values, track1, track2, distance>>

\* --------------------------------------------------------- flush_database
flush_database ==
    /\ store' = <<>>
    /\ edges' = EmptyBag
    /\ last' = Call("flush_database", 0, "", Zero, 0, "")
    /\ recommended' = {}
    /\ UNCHANGED <<random_nodes, artists_nodes, max_min_values, track1, track2, distance>>

\* --------------------------------------------------------- normalize_data
NumericKeys == SelectSeq(track_keys, LAMBDA k : k \notin Excluded)

\* a boolean counts as the integer 1 or 0 in arithmetic
AsNumber(v) == IF IsBool(v) THEN (IF v.bool THEN One ELSE Zero) ELSE v.num

PropertyValues(st, key) ==
    {AsNumber(Get(st[i], key)) : i \in {n \in DOMAIN st : HasKey(st[n], key)}}

MaxOf(Q) == CHOOSE q \in Q : \A r \in Q : RLeq(r, q)

MinOf(Q) == CHOOSE q \in Q : \A r \in Q : RLeq(q, r)

\* MATCH (t:Track) RETURN MAX(t.key), MIN(t.key), for every numeric key;
\* both aggregates are null when no node holds the key
Ranges(st) ==
    [key \in Range(NumericKeys) |->
        LET Q == PropertyValues(st, key)
        IN  IF Q = {} THEN [null |-> TRUE, max |-> Zero, min |-> Zero]
            ELSE [null |-> FALSE, max |-> MaxOf(Q), min |-> MinOf(Q)]]

\* the key loop over one track, from the j-th numeric key on.  The values
\* are those of the record read before the loop; a key the record lacks
\* raises outside the try, an exception inside the try skips the key.
RECURSIVE NormalizeKeys(_, _, _, _, _)
NormalizeKeys(st, ele, track, mm, j) ==
    IF j > Len(NumericKeys) THEN [store |-> st, err |-> ""]
    ELSE LET key == NumericKeys[j]
         IN  IF ~HasKey(track, key) THEN [store |-> st, err |-> "KeyError"]
             ELSE LET track_feature == Get(track, key)
                      r == mm[key]
                  IN  IF \/ r.null
                         \/ ~(IsNum(track_feature) \/ IsBool(track_feature))
                         \/ r.max = r.min
                      THEN NormalizeKeys(st, ele, track, mm, j + 1)
                      ELSE NormalizeKeys(
                             [st EXCEPT ![ele] = SetKey(@, key,
                                 Num(RDiv(RSub(AsNumber(track_feature), r.min),
                                          RSub(r.max, r.min))))],
                             ele, track, mm, j + 1)

\* the loop over random_nodes followed by the same loop over artists_nodes
RECURSIVE NormalizeNodes(_, _, _)
NormalizeNodes(st, nodes, mm) ==
    IF nodes = <<>> THEN [store |-> st, err |-> ""]
    ELSE LET ele == Head(nodes)
         IN  IF ele \notin DOMAIN st THEN [store |-> st, err |-> "TypeError"]
             ELSE LET r == NormalizeKeys(st, ele, st[ele], mm, 1)
                  IN  IF r.err # "" THEN r
                      ELSE NormalizeNodes(r.store, Tail(nodes), mm)

\* every value st holds that old does not is within the explored magnitude
Bounded(old, st) ==
    \A i \in DOMAIN st : \A j \in DOMAIN st[i] :
        st[i][j] # old[i][j] =>
            /\ Abs(st[i][j][2].num[1]) <= MaxMagnitude
            /\ st[i][j][2].num[2] <= MaxMagnitude

normalize_data ==
    LET mm == Ranges(store)
        r == NormalizeNodes(store, random_nodes \o artists_nodes, mm)
    IN  /\ Bounded(store, r.store)
        /\ store' = r.store
        /\ max_min_values' = mm
        /\ last' = Call("normalize_data", 0, "", Zero, 0, r.err)
        /\ recommended' = {}
        /\ UNCHANGED <<edges, random_nodes, artists_nodes, track1, track2, distance>>

\* ------------------------------------------------------- evaluate_metrics
Thresholds == {Zero, One}

\* similarity_score >= threshold: the gate with its comparison made weak
GreaterOrEqual(sq, threshold) ==
    RLess(threshold, Zero) \/ RLeq(RMul(threshold, threshold), sq)

\* similarity_score > threshold, for the distance whose square is sq
GreaterThan(sq, threshold) ==
    RLess(threshold, Zero) \/ RLess(RMul(threshold, threshold), sq)

\* MATCH (a),(b) WHERE ID(a)=start AND ID(b)=end CREATE (a)-[r:MATCHED]->(b)
create_relationship(E, st, start_node_id, end_node_id, score) ==
    IF start_node_id \in DOMAIN st /\ end_node_id \in DOMAIN st
    THEN E (+) SetToBag({[src |-> start_node_id, dst |-> end_node_id,
                          sim_score |-> score]})
    ELSE E

\* the inner loop over (the rest of) random_nodes for one artist track
RECURSIVE InnerLoop(_, _, _, _, _, _)
InnerLoop(E, st, node_artist, node1_values, rn, threshold) ==
    IF rn = <<>> THEN [edges |-> E, err |-> ""]
    ELSE LET pair_node == Head(rn)
         IN  IF pair_node \notin DOMAIN st
             THEN [edges |-> E, err |-> "TypeError"]
             ELSE LET similarity_score ==
                          eucliean_distance(node1_values, st[pair_node])
                  IN  IF similarity_score.err # ""
                      THEN [edges |-> E, err |-> similarity_score.err]
                      ELSE InnerLoop(
                             IF GreaterThan(similarity_score.sq, threshold)
                             THEN create_relationship(E, st, node_artist,
                                      pair_node, similarity_score.sq)
                             ELSE E,
                             st, node_artist, node1_values, Tail(rn), threshold)

\* the outer loop over (the rest of) artists_nodes
RECURSIVE OuterLoop(_, _, _, _, _)
OuterLoop(E, st, an, rn, threshold) ==
    IF an = <<>> THEN [edges |-> E, err |-> ""]
    ELSE LET node_artist == Head(an)
         IN  IF node_artist \notin DOMAIN st
             THEN [edges |-> E, err |-> "TypeError"]
             ELSE LET r == InnerLoop(E, st, node_artist, st[node_artist],
                                     rn, threshold)
                  IN  IF r.err # "" THEN r
                      ELSE OuterLoop(r.edges, st, Tail(an), rn, threshold)

evaluate_metrics(threshold) ==
    /\ \E p \in (IF Len(random_nodes) = 0
                 THEN SampleResults(store, random_nodes, artists_nodes,
                                    DefaultBatchSize, DefaultArtist)
                 ELSE {[random_nodes |-> random_nodes,
                        artists_nodes |-> artists_nodes]}) :
          LET r == OuterLoop(edges, store, p.artists_nodes, p.random_nodes,
                             threshold)
          IN  /\ Len(p.random_nodes) + Len(p.artists_nodes) <= MaxPool
              /\ BagCardinality(r.edges) <= MaxEdges
              /\ random_nodes' = p.random_nodes
              /\ artists_nodes' = p.artists_nodes
              /\ edges' = r.edges
              /\ last' = Call("evaluate_metrics", 0, "", threshold, 0, r.err)
    /\ recommended' = {}
    /\ UNCHANGED <<store, max_min_values, track1, track2, distance>>

\* -------------------------------------------------- find_recommended_songs
\* the text an f-string prints for a returned property (null prints None)
Text(d, key) == IF HasKey(d, key) /\ DOMAIN Get(d, key) = {"str"}
                THEN Get(d, key).str ELSE "None"

\* f"{record['t2.name']}, {record['t2.artist']}"
Display(d) == Text(d, "name") \o ", " \o Text(d, "artist")

\* MATCH (t1:Track)-[r]->(t2:Track) WHERE t1.artist = artist: one row
\* <<edge, copy>> for every parallel copy of every matching edge
MatchRows(E, st, artist) ==
    {row \in UNION {{<<e, c>> : c \in 1..CopiesIn(e, E)} : e \in BagToSet(E)} :
        /\ row[1].src \in DOMAIN st
        /\ row[1].dst \in DOMAIN st
        /\ HasKey(st[row[1].src], "artist")
        /\ Get(st[row[1].src], "artist") = Str(artist)}

\* ORDER BY r.sim_score DESC: the ordering turned around
OrderingsDescending(R) ==
    {p \in [1..Cardinality(R) -> R] :
        /\ \A a, b \in DOMAIN p : p[a] = p[b] => a = b
        /\ \A a, b \in DOMAIN p :
              a < b => RLeq(p[b][1].sim_score, p[a][1].sim_score)}

\* ORDER BY r.sim_score ASC: the rows in any order that ascends by score
Orderings(R) ==
    {p \in [1..Cardinality(R) -> R] :
        /\ \A a, b \in DOMAIN p : p[a] = p[b] => a = b
        /\ \A a, b \in DOMAIN p :
              a < b => RLeq(p[a][1].sim_score, p[b][1].sim_score)}

\* LIMIT num_recommendations
Limit(p, n) == SubSeq(p, 1, Min(n, Len(p)))

find_recommended_songs(num_recommendations, artist) ==
    /\ \E p \in Orderings(MatchRows(edges, store, artist)) :
          recommended' = {Display(store[row[1].dst]) :
                             row \in Range(Limit(p, num_recommendations))}
    /\ last' = Call("find_recommended_songs", 0, artist, Zero,
                    num_recommendations, "")
    /\ UNCHANGED <<store, edges, random_nodes, artists_nodes, max_min_values, track1, track2, distance>>

\* ------------------------------------------- eucliean_distance, by itself
DictKeys == {"energy", "tempo", "name"}

DictValues == {Num(Zero), Bool(TRUE), Str("x")}

\* the dicts of at most MaxDictLen items, no key twice
Dicts ==
    UNION {{d \in [1..n -> DictKeys \X DictValues] :
               \A i, j \in 1..n : d[i][1] = d[j][1] => i = j} : n \in 0..MaxDictLen}

InitDistance ==
    /\ store = <<>>
    /\ edges = EmptyBag
    /\ random_nodes = <<>>
    /\ artists_nodes = <<>>
    /\ max_min_values = <<>>
    /\ last = Call("init", 0, "", Zero, 0, "")
    /\ recommended = {}
    /\ track1 \in Dicts
    /\ track2 \in Dicts
    /\ distance = NoDistance

call_eucliean_distance ==
    /\ last.op = "init"
    /\ distance' = eucliean_distance(track1, track2)
    /\ last' = Call("eucliean_distance", 0, "", Zero, 0, distance'.err)
    /\ UNCHANGED <<store, edges, random_nodes, artists_nodes, max_min_values,
                   recommended, track1, track2>>

\* ------------------------------------------------------ the specifications
Sample == \E batch_size \in BatchSizes, artist \in Artists :
              random_sample(batch_size, artist)

Evaluate == \E threshold \in Thresholds : evaluate_metrics(threshold)

Recommend == \E k \in 0..MaxK, artist \in Artists :
                 find_recommended_songs(k, artist)

\* any calls of the driver, in any order
Next ==
    \/ Sample
    \/ normalize_data
    \/ Evaluate
    \/ Recommend
    \/ flush_database

Spec == Init /\ [][Next]_vars

\* sampling and normalizing
NextNormalizer ==
    \/ Sample
    \/ normalize_data

SpecNormalizer == Init /\ [][NextNormalizer]_vars

\* sampling, normalizing and materializing
NextMaterializer ==
    \/ Sample
    \/ normalize_data
    \/ Evaluate

SpecMaterializer == Init /\ [][NextMaterializer]_vars

\* sampling, materializing and recommending
NextRecommender ==
    \/ Sample
    \/ Evaluate
    \/ Recommend

SpecRecommender == Init /\ [][NextRecommender]_vars

\* sampling and materializing over a store in which a row may lack a column
NextSparse ==
    \/ Sample
    \/ Evaluate

SpecSparse == InitSparse /\ [][NextSparse]_vars

\* one call of eucliean_distance on any two dicts
NextDistance == call_eucliean_distance

SpecDistance == InitDistance /\ [][NextDistance]_vars

\* ------------------------------------------------------------ properties
\* one <<edge, copy>> per MATCHED edge of the bag E
EdgeRows(E) == UNION {{<<e, c>> : c \in 1..CopiesIn(e, E)} : e \in BagToSet(E)}

Pooled == Range(random_nodes) \cup Range(artists_nodes)

\* the step added an edge from s to c with score sq
PairAdded(s, c, sq) ==
    LET e == [src |-> s, dst |-> c, sim_score |-> sq]
    IN  CopiesIn(e, edges') > CopiesIn(e, edges)

\* similarity_score < threshold, for the distance whose square is sq
DistanceBelow(sq, threshold) ==
    RLess(Zero, threshold) /\ RLess(sq, RMul(threshold, threshold))

\* C1: when evaluate_metrics has completed and is run again with the same
\* threshold over the same pools (the tracks untouched in between), the
\* second run adds no MATCHED edge: each qualifying pair keeps one edge.
MaterializerIdempotent ==
    [][(/\ last.op = "evaluate_metrics" /\ last.err = ""
        /\ last'.op = "evaluate_metrics" /\ last'.err = ""
        /\ last'.threshold = last.threshold
        /\ random_nodes' = random_nodes
        /\ artists_nodes' = artists_nodes
        /\ store' = store) => edges' = edges]_vars

\* C2: no track id is in both artists_nodes and random_nodes.
SamplePoolDisjoint == Range(random_nodes) \cap Range(artists_nodes) = {}

\* C3: find_recommended_songs(k, artist) returns at most k entries, and they
\* are the targets of min(k, n) of the n edges leaving the artist's tracks,
\* none of which has a larger sim_score than an edge that was left out.
RecommenderTopK ==
    last.op = "find_recommended_songs" =>
        LET R == {row \in EdgeRows(edges) :
                     Text(store[row[1].src], "artist") = last.artist}
        IN  /\ Cardinality(recommended) <= last.k
            /\ \E S \in SUBSET R :
                  /\ Cardinality(S) = Min(last.k, Cardinality(R))
                  /\ recommended = {Display(store[row[1].dst]) : row \in S}
                  /\ \A row \in S : \A out \in R \ S :
                        RLeq(row[1].sim_score, out[1].sim_score)

\* a call with k = 1 chose between two edges of different scores whose
\* targets print differently
RecommenderTopKWitness ==
    /\ last.op = "find_recommended_songs"
    /\ last.k = 1
    /\ recommended # {}
    /\ \E r1, r2 \in EdgeRows(edges) :
          /\ Text(store[r1[1].src], "artist") = last.artist
          /\ Text(store[r2[1].src], "artist") = last.artist
          /\ RLess(r1[1].sim_score, r2[1].sim_score)
          /\ Display(store[r1[1].dst]) # Display(store[r2[1].dst])

\* C4: random_sample with a batch_size above the number of tracks not by
\* the artist fails with InsufficientPopulation and leaves random_nodes alone.
SamplerBounds ==
    [][(/\ last'.op = "random_sample"
        /\ last'.batch_size > Cardinality(NotByArtist(store, last'.artist)))
       => (last'.err = "InsufficientPopulation"
           /\ random_nodes' = random_nodes)]_vars

\* C5: a completed evaluate_metrics writes an edge for a (seed, candidate)
\* pair if and only if the pair's distance is below the threshold, and the
\* edge carries the pair's distance as sim_score.
ThresholdGating ==
    [][(last'.op = "evaluate_metrics" /\ last'.err = "") =>
          /\ \A s \in Range(artists_nodes'), c \in Range(random_nodes') :
                LET d == eucliean_distance(store[s], store[c])
                IN  PairAdded(s, c, d.sq)
                        <=> DistanceBelow(d.sq, last'.threshold)
          /\ \A e \in BagToSet(edges') :
                CopiesIn(e, edges') > CopiesIn(e, edges) =>
                    e.sim_score
                        = eucliean_distance(store[e.src], store[e.dst]).sq]_vars

\* C6: a completed normalize_data stores 0 for a sampled track that held the
\* minimum and 1 for one that held the maximum of an attribute with
\* max > min, and stores 0 for every sampled track when max = min.
NormalizeEndpoints ==
    [][(last'.op = "normalize_data" /\ last'.err = "") =>
          \A t \in Pooled : \A j \in DOMAIN NumericKeys :
              LET key == NumericKeys[j]
                  r == max_min_values'[key]
                  old == Get(store[t], key).num
                  new == Get(store'[t], key).num
              IN  /\ (RLess(r.min, r.max) /\ old = r.min) => new = Zero
                  /\ (RLess(r.min, r.max) /\ old = r.max) => new = One
                  /\ r.max = r.min => new = Zero]_vars

\* the dimensions of a dict's feature vector, in order
RECURSIVE FeatureKeys(_)
FeatureKeys(d) ==
    IF d = <<>> THEN <<>>
    ELSE LET rest == FeatureKeys(Tail(d))
         IN  IF Head(d)[1] \notin Excluded
                /\ (IsNum(Head(d)[2]) \/ IsBool(Head(d)[2]))
             THEN <<Head(d)[1]>> \o rest
             ELSE rest

\* C7: eucliean_distance returns a number only for two dicts whose feature
\* vectors have the same dimensions in the same order; otherwise it fails.
SchemaMismatchFails ==
    last.op = "eucliean_distance" =>
        (distance.err = "" => FeatureKeys(track1) = FeatureKeys(track2))

\* C8: evaluate_metrics writes an edge for every pooled pair that can be
\* read and scored and whose score passes the gate, whatever happens to the
\* other pairs.
PerPairIsolation ==
    [][last'.op = "evaluate_metrics" =>
          \A s \in Range(artists_nodes'), c \in Range(random_nodes') :
              (/\ s \in DOMAIN store
               /\ c \in DOMAIN store
               /\ eucliean_distance(store[s], store[c]).err = ""
               /\ GreaterThan(eucliean_distance(store[s], store[c]).sq,
                              last'.threshold))
              => PairAdded(s, c, eucliean_distance(store[s], store[c]).sq)]_vars

\* C9: after a completed normalize_data every attribute of every pooled
\* track whose population max > min holds a value in [0,1].
NormalizedRange ==
    (last.op = "normalize_data" /\ last.err = "") =>
        \A t \in Pooled : \A j \in DOMAIN NumericKeys :
            LET key == NumericKeys[j]
                r == max_min_values[key]
                v == Get(store[t], key).num
            IN  RLess(r.min, r.max) => (RLeq(Zero, v) /\ RLeq(v, One))

\* C10: with every threshold >= 0, no MATCHED edge joins a track to itself,
\* and every MATCHED edge leads from a track of artists_nodes to a track of
\* random_nodes.
NoSelfMatch ==
    \A e \in BagToSet(edges) :
        /\ e.src # e.dst
        /\ e.src \in Range(artists_nodes)
        /\ e.dst \in Range(random_nodes)

\* evaluate_metrics completed over pools that share a track, and wrote edges
NoSelfMatchWitness ==
    /\ last.op = "evaluate_metrics"
    /\ last.err = ""
    /\ Range(random_nodes) \cap Range(artists_nodes) # {}
    /\ edges # EmptyBag

====
